---- MODULE Spec2Model ----
(***************************************************************************)
(* A model of two subsystems of the imperative CLI framework:              *)
(*                                                                         *)
(*  - BaseAuthHandler (auth login / auth logout), one step per await or    *)
(*    throwing call of process(), processLogin() and processLogout();      *)
(*  - ConfigBuilder: hoistTemplateProperties(), convertPropNames(),        *)
(*    convert(), getDefaultValue() and build(), one step per await of      *)
(*    build() and per iteration of the loops of convert().                 *)
(*                                                                         *)
(* Each operation has its own specification over the shared variables:     *)
(*   SpecAuth, SpecHoist, SpecRename, SpecConvert, SpecDefault, SpecBuild. *)
(*                                                                         *)
(* JavaScript values are encoded as strings or records so that TLC can     *)
(* compare them; `undefined` is the string Undefined, `null` the string    *)
(* Null.                                                                   *)
(***************************************************************************)
EXTENDS Integers, Sequences, FiniteSets, TLC

VARIABLES
    \* ---- BaseAuthHandler ----
    pc,             \* position of process() in the handler
    positional,     \* commandParameters.positionals[1]
    arguments,      \* commandParameters.arguments
    storedMeta,     \* what params.profiles.getMeta(mProfileType, false) returns
    loadedProfile,  \* the local loadedProfile of processLogin / processLogout
    mSession,       \* this.mSession
    tokenValue,     \* the local tokenValue of processLogin (doLogin's result)
    calls,          \* how often each collaborator was called in this invocation
    updateCalls,    \* arguments of profileManager.update() in this invocation
    saveCalls,      \* arguments of profileManager.save() in this invocation
    console,        \* params.response.console.log() lines of this invocation
    error,          \* the error process() rejected with, NoError if none
    mSessionBefore, \* this.mSession when process() was entered (history)
    \* ---- ConfigBuilder ----
    cpc,            \* position of the ConfigBuilder operation under study
    config,         \* the IConfig being built: profiles, defaults, autoStore
    profilesConverted, \* IConfigConvertResult.profilesConverted
    profilesFailed, \* IConfigConvertResult.profilesFailed
    disk,           \* the v1 profile directories convert() enumerates
    cursor,         \* convert(): <<index of the type, index of the name>>
    lastRead,       \* convert(): what the last profile iteration read (history)
    before,         \* the profiles before the last pass (history)
    hoistedProps,   \* the names returned by the last hoistTemplateProperties()
    impConfig,      \* build(): the impConfig argument
    opts,           \* build(): the opts argument, {} when absent
    valueBack,      \* build(): the calls of opts.getValueBack so far (history)
    propType,       \* getDefaultValue(): the propType argument
    emptyValue      \* getDefaultValue(): the value returned

authVars == <<pc, positional, arguments, storedMeta, loadedProfile, mSession,
              tokenValue, calls, updateCalls, saveCalls, console, error,
              mSessionBefore>>
cfgVars == <<cpc, config, profilesConverted, profilesFailed, disk, cursor,
             lastRead, before, hoistedProps>>
buildVars == <<impConfig, opts, valueBack, propType, emptyValue>>
vars == <<authVars, cfgVars, buildVars>>

Undefined == "undefined"
Null == "null"

\* x == null (loose equality): true of null and of undefined
IsNullOrUndefined(x) == x \in {Null, Undefined}

(***************************************************************************)
(*                          BaseAuthHandler                                *)
(***************************************************************************)

LOGIN_ACTION == "login"
LOGOUT_ACTION == "logout"
AUTH_TYPE_TOKEN == "token"
AUTH_TYPE_BASIC == "basic"
AUTH_TYPE_NONE == "none"
mProfileType == "base"
mDefaultTokenType == "apimlAuthenticationToken"

NoError == "none"
NoSession == [type |-> Undefined, tokenType |-> Undefined,
              tokenValue |-> Undefined, hostname |-> Undefined,
              port |-> Undefined, built |-> FALSE]
NoProfile == [name |-> Undefined, type |-> Undefined,
              profile |-> [host |-> Undefined, tokenType |-> Undefined,
                           tokenValue |-> Undefined]]
NoCalls == [getMeta |-> 0, createSessCfgFromArgs |-> 0, addCredsOrPrompt |-> 0,
            doLogin |-> 0, doLogout |-> 0]
NoArguments == [tokenType |-> Undefined, tokenValue |-> Undefined,
                host |-> Undefined, port |-> Undefined, showToken |-> FALSE]

\* ---- the inputs of one invocation ----
Positionals == {LOGIN_ACTION, LOGOUT_ACTION, "list"}
TokenTypes == {Undefined, Null, "jwtToken"}
TokenValues == {Undefined, "tokA", "tokB"}
Hosts == {Undefined, "example.com"}
Ports == {Undefined, "443"}
ArgumentSets ==
    [tokenType : TokenTypes, tokenValue : TokenValues, host : Hosts,
     port : Ports, showToken : BOOLEAN]
\* getMeta(type, false): a profile that was found has a name and its
\* contents; one that was not found has neither
StoredMetas ==
    {NoProfile} \cup
    [name : {"my_base"}, type : {mProfileType},
     profile : [host : {"example.com"},
                tokenType : {Undefined, "jwtToken"},
                tokenValue : {Undefined, "tokA"}]]
LoginTokens == {"tokA", "tokB"}

\* createSessCfgFromArgs(args) of a concrete handler: host and port come
\* from the arguments
createSessCfgFromArgs(args) ==
    [type |-> AUTH_TYPE_NONE, tokenType |-> Undefined, tokenValue |-> Undefined,
     hostname |-> args.host, port |-> args.port, built |-> TRUE]

\* CredsForSessCfg.addCredsOrPrompt(sessCfg, args,
\*                                  {requestToken: true, defaultTokenType}):
\* the session asks for a token of the type of the arguments, or of the
\* default type
addCredsOrPrompt(sessCfg, args) ==
    [sessCfg EXCEPT !.type = AUTH_TYPE_TOKEN,
                    !.tokenType = IF IsNullOrUndefined(args.tokenType)
                                  THEN mDefaultTokenType ELSE args.tokenType]

\* the condition guarding profileManager.update() in processLogin
ShouldStoreToken_NoShowCheck ==
    ~IsNullOrUndefined(loadedProfile.name)
ShouldStoreToken ==
    ~IsNullOrUndefined(loadedProfile.name) /\ ~arguments.showToken

\* the condition guarding profileManager.save() in processLogout
ShouldClearToken_NoMatchCheck ==
    ~IsNullOrUndefined(loadedProfile.name)
ShouldClearToken ==
    /\ ~IsNullOrUndefined(loadedProfile.name)
    /\ arguments.tokenValue = loadedProfile.profile.tokenValue

\* the four ImperativeExpect.toNotBeNullOrUndefined checks of processLogout,
\* in order: the message of the first that fails, NoError if all pass
LogoutValidation(args) ==
    IF IsNullOrUndefined(args.tokenType) THEN "Token type not supplied"
    ELSE IF IsNullOrUndefined(args.tokenValue) THEN "Token value not supplied"
    ELSE IF IsNullOrUndefined(args.host) THEN "Host not supplied"
    ELSE IF IsNullOrUndefined(args.port) THEN "Port not supplied"
    ELSE NoError

\* processLogout puts the session in token mode before doLogout
TokenSession_NoValue(s, args) ==
    [s EXCEPT !.type = AUTH_TYPE_TOKEN, !.tokenType = args.tokenType]
TokenSession(s, args) ==
    [s EXCEPT !.type = AUTH_TYPE_TOKEN, !.tokenType = args.tokenType,
              !.tokenValue = args.tokenValue]

\* the session as processLogout leaves it on success
ResetSession(s) ==
    [s EXCEPT !.type = AUTH_TYPE_BASIC, !.tokenType = Undefined,
              !.tokenValue = Undefined]

\* the switch of process(): where positionals[1] leads
DispatchTarget_LoginOnly(p) ==
    IF p = LOGIN_ACTION THEN "login" ELSE "failed"
DispatchTarget(p) ==
    CASE p = LOGIN_ACTION -> "login"
      [] p = LOGOUT_ACTION -> "logout"
      [] OTHER -> "failed"

\* a value of a built property: its typeof, its contents, and for an object or
\* an array its identity (0 for a primitive)
UndefinedValue == [t |-> "undefined", v |-> "undefined", ref |-> 0]
\* a propType of a schema property: a tag, or a list of tags
TypeTag(tag) == [isArray |-> FALSE, of |-> <<tag>>]
TypeList(tags) == [isArray |-> TRUE, of |-> tags]
NoBaseProfile == [type |-> Undefined, schema |-> [properties |-> <<>>]]

buildIdle ==
    /\ impConfig = [profiles |-> <<>>, baseProfile |-> NoBaseProfile]
    /\ opts = <<>>
    /\ valueBack = <<>>
    /\ propType = TypeTag(Undefined)
    /\ emptyValue = UndefinedValue

cfgIdle ==
    /\ buildIdle
    /\ cpc = "off"
    /\ config = [profiles |-> <<>>, defaults |-> <<>>, autoStore |-> FALSE]
    /\ profilesConverted = <<>>
    /\ profilesFailed = <<>>
    /\ disk = <<>>
    /\ cursor = <<0, 0>>
    /\ lastRead = <<>>
    /\ before = <<>>
    /\ hoistedProps = <<>>

InitAuth ==
    /\ pc = "idle"
    /\ positional = Undefined
    /\ arguments = NoArguments
    /\ storedMeta = NoProfile
    /\ loadedProfile = NoProfile
    /\ mSession = NoSession
    /\ tokenValue = Undefined
    /\ calls = NoCalls
    /\ updateCalls = <<>>
    /\ saveCalls = <<>>
    /\ console = <<>>
    /\ error = NoError
    /\ mSessionBefore = NoSession
    /\ cfgIdle

\* The command framework calls handler.process(commandParameters).  The
\* handler object, and with it mSession, outlives the call.
Invoke ==
    /\ pc = "idle"
    /\ \E p \in Positionals, a \in ArgumentSets, m \in StoredMetas :
        /\ positional' = p
        /\ arguments' = a
        /\ storedMeta' = m
    /\ pc' = "process"
    /\ loadedProfile' = NoProfile
    /\ tokenValue' = Undefined
    /\ calls' = NoCalls
    /\ updateCalls' = <<>>
    /\ saveCalls' = <<>>
    /\ console' = <<>>
    /\ error' = NoError
    /\ mSessionBefore' = mSession
    /\ UNCHANGED <<mSession, cfgVars, buildVars>>

\* process(): the switch on positionals[1]
process ==
    /\ pc = "process"
    /\ pc' = DispatchTarget(positional)
    /\ error' = IF DispatchTarget(positional) = "failed"
                THEN "group name is not valid" ELSE NoError
    /\ UNCHANGED <<positional, arguments, storedMeta, loadedProfile, mSession,
                   tokenValue, calls, updateCalls, saveCalls, console,
                   mSessionBefore, cfgVars, buildVars>>

\* processLogin up to the await of doLogin: getMeta, createSessCfgFromArgs
\* (which may throw), addCredsOrPrompt, new Session
processLogin_buildSession ==
    /\ pc = "login"
    /\ loadedProfile' = storedMeta
    /\ \E throws \in BOOLEAN :
        IF throws
        THEN /\ calls' = [calls EXCEPT !.getMeta = @ + 1,
                                       !.createSessCfgFromArgs = @ + 1]
             /\ error' = "createSessCfgFromArgs failed"
             /\ pc' = "failed"
             /\ UNCHANGED mSession
        ELSE /\ calls' = [calls EXCEPT !.getMeta = @ + 1,
                                       !.createSessCfgFromArgs = @ + 1,
                                       !.addCredsOrPrompt = @ + 1]
             /\ mSession' = addCredsOrPrompt(createSessCfgFromArgs(arguments),
                                             arguments)
             /\ pc' = "doLogin"
             /\ UNCHANGED error
    /\ UNCHANGED <<positional, arguments, storedMeta, tokenValue, updateCalls,
                   saveCalls, console, mSessionBefore, cfgVars, buildVars>>

\* await this.doLogin(this.mSession): a token, or an error
processLogin_doLogin ==
    /\ pc = "doLogin"
    /\ calls' = [calls EXCEPT !.doLogin = @ + 1]
    /\ \/ /\ error' = "doLogin failed"
          /\ pc' = "failed"
          /\ UNCHANGED tokenValue
       \/ /\ \E t \in LoginTokens : tokenValue' = t
          /\ pc' = "loginStore"
          /\ UNCHANGED error
    /\ UNCHANGED <<positional, arguments, storedMeta, loadedProfile, mSession,
                   updateCalls, saveCalls, console, mSessionBefore, cfgVars, buildVars>>

LoginSuccessful == [msg |-> "Login successful.", tokenType |-> Undefined,
                    token |-> Undefined]
ReceivedToken(type, token) == [msg |-> "Received a token", tokenType |-> type,
                               token |-> token]
LogoutSuccessful == [msg |-> "Logout successful.", tokenType |-> Undefined,
                     token |-> Undefined]

\* processLogin after doLogin: the profile update and the messages
processLogin_store ==
    /\ pc = "loginStore"
    /\ updateCalls' =
         IF ShouldStoreToken
         THEN Append(updateCalls,
                     [name |-> loadedProfile.name,
                      args |-> [tokenType |-> mSession.tokenType,
                                tokenValue |-> tokenValue],
                      merge |-> TRUE])
         ELSE updateCalls
    /\ console' =
         IF arguments.showToken
         THEN console \o <<LoginSuccessful,
                           ReceivedToken(mSession.tokenType, tokenValue)>>
         ELSE Append(console, LoginSuccessful)
    /\ pc' = "done"
    /\ UNCHANGED <<positional, arguments, storedMeta, loadedProfile, mSession,
                   tokenValue, calls, saveCalls, error, mSessionBefore,
                   cfgVars, buildVars>>

\* processLogout up to the await of doLogout: getMeta, createSessCfgFromArgs
\* (which may throw), new Session, the four validations, token mode
processLogout_buildSession ==
    /\ pc = "logout"
    /\ loadedProfile' = storedMeta
    /\ calls' = [calls EXCEPT !.getMeta = @ + 1,
                              !.createSessCfgFromArgs = @ + 1]
    /\ \E throws \in BOOLEAN :
        IF throws
        THEN /\ error' = "createSessCfgFromArgs failed"
             /\ pc' = "failed"
             /\ UNCHANGED mSession
        ELSE IF LogoutValidation(arguments) # NoError
        THEN /\ error' = LogoutValidation(arguments)
             /\ pc' = "failed"
             /\ mSession' = createSessCfgFromArgs(arguments)
        ELSE /\ mSession' = TokenSession(createSessCfgFromArgs(arguments),
                                         arguments)
             /\ pc' = "doLogout"
             /\ UNCHANGED error
    /\ UNCHANGED <<positional, arguments, storedMeta, tokenValue, updateCalls,
                   saveCalls, console, mSessionBefore, cfgVars, buildVars>>

\* await this.doLogout(this.mSession): returns, or an error
processLogout_doLogout ==
    /\ pc = "doLogout"
    /\ calls' = [calls EXCEPT !.doLogout = @ + 1]
    /\ \/ /\ error' = "doLogout failed"
          /\ pc' = "failed"
       \/ /\ pc' = "logoutStore"
          /\ UNCHANGED error
    /\ UNCHANGED <<positional, arguments, storedMeta, loadedProfile, mSession,
                   tokenValue, updateCalls, saveCalls, console, mSessionBefore,
                   cfgVars, buildVars>>

\* processLogout after doLogout: the profile save, the session reset and
\* the message
processLogout_store ==
    /\ pc = "logoutStore"
    /\ saveCalls' =
         IF ShouldClearToken
         THEN Append(saveCalls,
                     [name |-> loadedProfile.name,
                      type |-> loadedProfile.type,
                      overwrite |-> TRUE,
                      profile |-> [loadedProfile.profile EXCEPT
                                      !.tokenType = Undefined,
                                      !.tokenValue = Undefined]])
         ELSE saveCalls
    /\ mSession' = ResetSession(mSession)
    /\ console' = Append(console, LogoutSuccessful)
    /\ pc' = "done"
    /\ UNCHANGED <<positional, arguments, storedMeta, loadedProfile, tokenValue,
                   calls, updateCalls, error, mSessionBefore, cfgVars, buildVars>>

\* process() has resolved or rejected: its locals are gone, the handler and
\* its mSession remain.  The record of the invocation is cleared with them.
Return ==
    /\ pc \in {"done", "failed"}
    /\ pc' = "idle"
    /\ positional' = Undefined
    /\ arguments' = NoArguments
    /\ storedMeta' = NoProfile
    /\ loadedProfile' = NoProfile
    /\ tokenValue' = Undefined
    /\ calls' = NoCalls
    /\ updateCalls' = <<>>
    /\ saveCalls' = <<>>
    /\ console' = <<>>
    /\ error' = NoError
    /\ mSessionBefore' = mSession
    /\ UNCHANGED <<mSession, cfgVars, buildVars>>

NextAuth ==
    \/ Invoke
    \/ Return
    \/ process
    \/ processLogin_buildSession
    \/ processLogin_doLogin
    \/ processLogin_store
    \/ processLogout_buildSession
    \/ processLogout_doLogout
    \/ processLogout_store

SpecAuth == InitAuth /\ [][NextAuth]_vars

(***************************************************************************)
(*                 ConfigBuilder.hoistTemplateProperties                   *)
(*                                                                         *)
(* A property value of a built profile is a JavaScript value:              *)
(*   [t |-> typeof, v |-> its contents, ref |-> the object's identity],    *)
(* ref = 0 for a primitive.  Two object values with the same contents are  *)
(* two objects unless their ref is the same.                               *)
(***************************************************************************)

authIdle ==
    /\ pc = "off"
    /\ positional = Undefined
    /\ arguments = NoArguments
    /\ storedMeta = NoProfile
    /\ loadedProfile = NoProfile
    /\ mSession = NoSession
    /\ tokenValue = Undefined
    /\ calls = NoCalls
    /\ updateCalls = <<>>
    /\ saveCalls = <<>>
    /\ console = <<>>
    /\ error = NoError
    /\ mSessionBefore = NoSession

\* the number of non-base profile types handed to hoistTemplateProperties
NumChildren == 2

baseProfileType == "base"
\* insertion order of the keys of `profiles` (Object.values order)
ProfileKeyOrder == <<"base", "zosmf", "tso", "ssh", "cics">>
ChildTypes == {ProfileKeyOrder[i + 1] : i \in 1..NumChildren}
HoistPropNames == {"host", "opts"}

StringValue(str) == [t |-> "string", v |-> str, ref |-> 0]
ObjectValue(id) == [t |-> "object", v |-> "{}", ref |-> id]
ChildValues == {StringValue("a"), StringValue("b"), ObjectValue(1), ObjectValue(2)}
BaseValues == {StringValue("a"), StringValue("b")}

\* all maps from a subset of names to values
PartialMaps(names, values) == UNION {[D -> values] : D \in SUBSET names}

\* SameValueZero, the equality of a JavaScript Set: primitives by value,
\* objects by identity
SameValueZero(x, y) ==
    IF x.ref = 0 /\ y.ref = 0 THEN x.t = y.t /\ x.v = y.v ELSE x.ref = y.ref

\* (new Set(v)).size
SetSize(v) ==
    LET Rep(i) == CHOOSE j \in 1..Len(v) : SameValueZero(v[i], v[j])
                     /\ \A m \in 1..Len(v) : SameValueZero(v[i], v[m]) => j <= m
    IN Cardinality({Rep(i) : i \in 1..Len(v)})

\* Object.values(profiles).filter(({ type }) => type !== baseProfileType),
\* as the sequence of their keys
ChildProfiles(profiles, baseType) ==
    SelectSeq(ProfileKeyOrder,
              LAMBDA k : k \in DOMAIN profiles /\ profiles[k].type # baseType)

\* flattenedProps: property name -> the list of its values in the children
FlattenedProps(profiles, baseType) ==
    LET children == ChildProfiles(profiles, baseType)
        names == UNION {DOMAIN profiles[children[i]].properties :
                            i \in 1..Len(children)}
        Having(k) == SelectSeq(children,
                               LAMBDA c : k \in DOMAIN profiles[c].properties)
    IN [k \in names |->
            [i \in 1..Len(Having(k)) |-> profiles[Having(k)[i]].properties[k]]]

\* duplicateProps: the names defined more than once with one value
DuplicateProps(profiles, baseType) ==
    LET flat == FlattenedProps(profiles, baseType)
    IN {k \in DOMAIN flat : Len(flat[k]) > 1 /\ SetSize(flat[k]) = 1}

\* { [propName]: flattenedProps[propName][0], ...base.properties } for every
\* duplicate: a property the base profile already has keeps the base's value
HoistIntoBase(baseProps, flat, dups) ==
    [k \in DOMAIN baseProps \cup dups |->
        IF k \in DOMAIN baseProps THEN baseProps[k] ELSE flat[k][1]]

\* delete childProfile.properties[propName] for every duplicate
RemoveFromChild_Keep(props, dups) == props
RemoveFromChild(props, dups) ==
    [k \in DOMAIN props \ dups |-> props[k]]

\* the profiles as hoistTemplateProperties leaves them (its return value is
\* DuplicateProps); the base profile is only touched when there is a duplicate
HoistedProfiles(profiles, baseType) ==
    LET flat == FlattenedProps(profiles, baseType)
        dups == DuplicateProps(profiles, baseType)
    IN [k \in DOMAIN profiles |->
          IF profiles[k].type # baseType
          THEN [profiles[k] EXCEPT
                    !.properties = RemoveFromChild(@, dups)]
          ELSE IF k = baseType
          THEN [profiles[k] EXCEPT
                    !.properties = HoistIntoBase(@, flat, dups)]
          ELSE profiles[k]]

\* build() hands over one profile per declared type, keyed by its type, the
\* base profile among them
InitHoist ==
    /\ authIdle
    /\ buildIdle
    /\ cpc = "built"
    /\ \E bp \in PartialMaps(HoistPropNames, BaseValues),
          cp \in [ChildTypes -> PartialMaps(HoistPropNames, ChildValues)] :
         config = [profiles |->
                      [k \in {baseProfileType} \cup ChildTypes |->
                          [type |-> k,
                           properties |-> IF k = baseProfileType THEN bp
                                          ELSE cp[k],
                           secure |-> <<>>]],
                   defaults |-> <<>>, autoStore |-> FALSE]
    /\ profilesConverted = <<>>
    /\ profilesFailed = <<>>
    /\ disk = <<>>
    /\ cursor = <<0, 0>>
    /\ lastRead = <<>>
    /\ before = <<>>
    /\ hoistedProps = <<>>

\* one call of hoistTemplateProperties(config.profiles, baseProfileType)
hoistTemplateProperties ==
    /\ cpc \in {"built", "hoisted"}
    /\ cpc' = IF cpc = "built" THEN "hoisted" ELSE "hoistedTwice"
    /\ before' = config.profiles
    /\ hoistedProps' = Append(hoistedProps,
                              DuplicateProps(config.profiles, baseProfileType))
    /\ config' = [config EXCEPT
                    !.profiles = HoistedProfiles(config.profiles, baseProfileType)]
    /\ UNCHANGED <<profilesConverted, profilesFailed, disk, cursor, lastRead,
                   authVars, buildVars>>

NextHoist == hoistTemplateProperties

SpecHoist == InitHoist /\ [][NextHoist]_vars

(***************************************************************************)
(*          ConfigBuilder.convertPropNames and ConfigBuilder.convert       *)
(*                                                                         *)
(* A property value of a v1 profile is [t |-> typeof, v |-> text]; a text  *)
(* is a sequence of pieces, so that startsWith is a test on its prefix.    *)
(***************************************************************************)

\* the most v1 profile files convert() finds under the root directory
MaxFiles == 2

\* ProfilesConstants.PROFILES_OPTION_SECURELY_STORED
PROFILES_OPTION_SECURELY_STORED == <<"managed by">>

Text(pieces) == [t |-> "string", v |-> pieces]
NullValue == [t |-> "null", v |-> <<>>]

\* String.prototype.startsWith
StartsWith(text, prefix) ==
    /\ Len(text) >= Len(prefix)
    /\ SubSeq(text, 1, Len(prefix)) = prefix

\* nameConversions: [old name, new name]
nameConversions_NoPass ==
    << <<"hostname", "host">>, <<"username", "user">> >>
nameConversions ==
    << <<"hostname", "host">>, <<"username", "user">>, <<"pass", "password">> >>

\* the inner loop over nameConversions: the new name of the first entry whose
\* old name is `name` (then break), `name` itself when there is none
RECURSIVE ConvertedName(_, _)
ConvertedName(name, conversions) ==
    IF conversions = <<>> THEN name
    ELSE IF name = Head(conversions)[1] THEN Head(conversions)[2]
    ELSE ConvertedName(name, Tail(conversions))

\* order of the keys of a properties object (Object.entries order)
PropKeyOrder == <<"hostname", "host", "pass", "port">>
EntriesOf(props) == SelectSeq(PropKeyOrder, LAMBDA k : k \in DOMAIN props)

\* profPropsToConvert: the staged [old name, new name, value] of a profile
PropsToConvert(props) ==
    LET keys == SelectSeq(EntriesOf(props),
                          LAMBDA k : ConvertedName(k, nameConversions) # k)
    IN [i \in 1..Len(keys) |->
            <<keys[i], ConvertedName(keys[i], nameConversions), props[keys[i]]>>]

\* delete currProps[old]; currProps[new] = value, for the staged renames in
\* order
RECURSIVE ApplyConversions(_, _)
ApplyConversions(props, staged) ==
    IF staged = <<>> THEN props
    ELSE LET old == Head(staged)[1]
             new == Head(staged)[2]
             val == Head(staged)[3]
             deleted == [k \in DOMAIN props \ {old} |-> props[k]]
         IN ApplyConversions(
                [k \in DOMAIN deleted \cup {new} |->
                    IF k = new THEN val ELSE deleted[k]],
                Tail(staged))

\* the loop over currSecProps: entries are renamed in place
ConvertSecure(secure) ==
    [i \in 1..Len(secure) |-> ConvertedName(secure[i], nameConversions)]

\* the body of the loop over the profiles, for one profile
ConvertProfileNames(profile) ==
    [profile EXCEPT
        !.properties = ApplyConversions(@, PropsToConvert(@)),
        !.secure = ConvertSecure(@)]

\* convertPropNames: the profiles are visited in the order `order`
RECURSIVE convertPropNames(_, _)
convertPropNames(profiles, order) ==
    IF order = <<>> THEN profiles
    ELSE convertPropNames(
            [profiles EXCEPT ![Head(order)] = ConvertProfileNames(@)],
            Tail(order))

\* all orders in which the keys of `profiles` can be visited
VisitOrders(keys) ==
    {o \in [1..Cardinality(keys) -> keys] :
        \A i, j \in 1..Cardinality(keys) : i # j => o[i] # o[j]}

\* ---- the profiles convert() can hand to convertPropNames ----
RenameProfileKeys == {"zosmf_a", "tso_a"}
RenamePropNames == {"hostname", "host", "pass"}
\* per property: a plain value, or a secret listed in secure
RenameValues == {Text(<<"x">>), Text(<<"y">>)}
RenameProfiles ==
    {[type |-> type, properties |-> props,
      secure |-> SelectSeq(EntriesOf(props), LAMBDA k : k \in sec)] :
        type \in {"zosmf", "tso"},
        props \in PartialMaps(RenamePropNames, RenameValues),
        sec \in SUBSET RenamePropNames}

InitRename ==
    /\ authIdle
    /\ buildIdle
    /\ cpc = "converted"
    /\ \E ps \in [RenameProfileKeys -> RenameProfiles] :
         config = [profiles |-> ps, defaults |-> <<>>, autoStore |-> FALSE]
    /\ config.profiles["zosmf_a"].type = "zosmf"
    /\ config.profiles["tso_a"].type = "tso"
    /\ \A k \in RenameProfileKeys :
          \A i \in 1..Len(config.profiles[k].secure) :
              config.profiles[k].secure[i] \in DOMAIN config.profiles[k].properties
    /\ profilesConverted = <<>>
    /\ profilesFailed = <<>>
    /\ disk = <<>>
    /\ cursor = <<0, 0>>
    /\ lastRead = <<>>
    /\ before = <<>>
    /\ hoistedProps = <<>>

\* one call of convertPropNames(conversionResult)
renamePass ==
    /\ cpc \in {"converted", "renamed"}
    /\ cpc' = IF cpc = "converted" THEN "renamed" ELSE "renamedTwice"
    /\ before' = config.profiles
    /\ \E order \in VisitOrders(DOMAIN config.profiles) :
         config' = [config EXCEPT
                       !.profiles = convertPropNames(config.profiles, order)]
    /\ UNCHANGED <<profilesConverted, profilesFailed, disk, cursor, lastRead,
                   hoistedProps, authVars, buildVars>>

NextRename == renamePass

SpecRename == InitRename /\ [][NextRename]_vars

\* ---- convert() ----

\* ProfileIO.getAllProfileDirectories(profilesRootDir), in order
ProfileTypes == <<"zosmf", "tso">>
\* the names ProfileIO.getAllProfileNames can return for a type, in order
ProfileNames == <<"a", "b">>

\* ProfileUtils.getProfileMapKey(type, name)
getProfileMapKey(type, name) == type \o "_" \o name

\* the directory layouts: per type a prefix of ProfileNames, at most MaxFiles
\* files in all
RECURSIVE SumLen(_, _)
SumLen(f, keys) ==
    IF keys = {} THEN 0
    ELSE LET k == CHOOSE x \in keys : TRUE
         IN Len(f[k]) + SumLen(f, keys \ {k})
TypeSet == {ProfileTypes[i] : i \in 1..Len(ProfileTypes)}
DiskLayouts ==
    {d \in [TypeSet -> {SubSeq(ProfileNames, 1, n) : n \in 0..Len(ProfileNames)}] :
        SumLen(d, TypeSet) <= MaxFiles}

\* what ProfileIO.readProfileFile can give for one profile: an error, or the
\* properties of the file
ConvertPropNamesSet == {"hostname", "host"}
PlainValue == Text(<<"example.com">>)
SecureValue == Text(<<"managed by">> \o <<" Zowe CLI">>)
RawValues == {PlainValue, SecureValue, NullValue}
ProfileFiles == PartialMaps(ConvertPropNamesSet, RawValues)
ReadError == [error |-> "read error", properties |-> <<>>]
ReadResults == {ReadError} \cup
               {[error |-> "none", properties |-> f] : f \in ProfileFiles}

\* what CredentialManagerFactory.manager.load(key, true) can give: a rejection,
\* null, or the stored JSON text
VaultRejects == [kind |-> "rejected", text |-> ""]
VaultNull == [kind |-> "null", text |-> ""]
VaultText(text) == [kind |-> "text", text |-> text]
VaultAnswers == {VaultRejects, VaultNull, VaultText("\"s3cret\""),
                 VaultText("{bad")}

\* the properties of a profile file whose secret the vault is asked for
VaultKeys(props) == {k \in DOMAIN props : props[k] = SecureValue}

\* JSON.parse on the texts of VaultAnswers
JsonValid(text) == text = "\"s3cret\""
JsonParse(text) ==
    CASE text = "\"s3cret\"" -> Text(<<"s3cret">>)
      [] OTHER -> NullValue

\* the test that sends a property to the vault
IsSecurelyStored(value) ==
    StartsWith(value.v, PROFILES_OPTION_SECURELY_STORED)

\* a null vault answer: delete profileProps[key]
DropProperty_Keep(props, key) == props
DropProperty(props, key) == [k \in DOMAIN props \ {key} |-> props[k]]

\* the loop over Object.entries(profileProps) of one profile: the properties
\* and the secure list it ends with, or the error it throws
RECURSIVE ConvertProps(_, _, _, _)
ConvertProps(entries, profileProps, secureProps, vault) ==
    IF entries = <<>>
    THEN [error |-> "none", properties |-> profileProps, secure |-> secureProps]
    ELSE LET key == Head(entries)
             value == profileProps[key]
             Thrown(e) == [error |-> e, properties |-> <<>>, secure |-> <<>>]
         IN IF value.t = "null"
            THEN Thrown("TypeError")
            ELSE IF ~IsSecurelyStored(value)
            THEN ConvertProps(Tail(entries), profileProps, secureProps, vault)
            ELSE IF vault[key].kind = "rejected"
            THEN Thrown("vault error")
            ELSE IF vault[key].kind = "null"
            THEN ConvertProps(Tail(entries), DropProperty(profileProps, key),
                              secureProps, vault)
            ELSE IF ~JsonValid(vault[key].text)
            THEN Thrown("SyntaxError")
            ELSE ConvertProps(Tail(entries),
                              [profileProps EXCEPT
                                   ![key] = JsonParse(vault[key].text)],
                              Append(secureProps, key), vault)

\* one iteration of the loop over profileNames: the try block
ConvertOne(read, vault) ==
    IF read.error # "none"
    THEN [error |-> read.error, properties |-> <<>>, secure |-> <<>>]
    ELSE ConvertProps(EntriesOf(read.properties), read.properties, <<>>, vault)

\* m with key k set to v (k may be new)
Put(m, k, v) == [x \in DOMAIN m \cup {k} |-> IF x = k THEN v ELSE m[x]]

NoName == "(no name)"
NoMeta == [error |-> "none", defaultProfile |-> Undefined]
NoRead == [kind |-> "none", type |-> "", name |-> "", read |-> ReadError,
           vault |-> <<>>, meta |-> NoMeta]

\* what ProfileIO.readMetaFile can give: an error, or the meta file with or
\* without a defaultProfile
MetaResults ==
    {[error |-> "read error", defaultProfile |-> Undefined]} \cup
    {[error |-> "none", defaultProfile |-> d] :
        d \in {Undefined, Null} \cup {ProfileNames[i] : i \in 1..Len(ProfileNames)}}

InitConvert ==
    /\ authIdle
    /\ buildIdle
    /\ cpc = "types"
    /\ disk \in DiskLayouts
    /\ config = [profiles |-> <<>>, defaults |-> <<>>, autoStore |-> FALSE]
    /\ profilesConverted = <<>>
    /\ profilesFailed = <<>>
    /\ cursor = <<1, 1>>
    /\ lastRead = NoRead
    /\ before = <<>>
    /\ hoistedProps = <<>>

CurrentType == ProfileTypes[cursor[1]]

\* profileNames.length === 0: continue with the next type
convert_skipType ==
    /\ cpc = "types"
    /\ cursor[1] <= Len(ProfileTypes)
    /\ disk[CurrentType] = <<>>
    /\ cursor' = <<cursor[1] + 1, 1>>
    /\ UNCHANGED <<cpc, config, profilesConverted, profilesFailed, disk,
                   lastRead, before, hoistedProps, authVars, buildVars>>

\* the catch block of the loop over profileNames: the failure is recorded
\* and the loop goes on
CatchProfileError_Rethrow(profileType, profileName, err) ==
    /\ cpc' = "rejected"
    /\ UNCHANGED <<config, profilesConverted, profilesFailed>>
CatchProfileError(profileType, profileName, err) ==
    /\ profilesFailed' =
          Append(profilesFailed,
                 [name |-> profileName, type |-> profileType, error |-> err])
    /\ UNCHANGED <<cpc, config, profilesConverted>>

\* [...(result.profilesConverted[profileType] || []), profileName]
ConvertedNames_OnlyLast(converted, profileType, profileName) ==
    <<profileName>>
ConvertedNames(converted, profileType, profileName) ==
    Append(IF profileType \in DOMAIN converted THEN converted[profileType]
           ELSE <<>>,
           profileName)

\* one iteration of the loop over profileNames
convert_profile ==
    /\ cpc = "types"
    /\ cursor[1] <= Len(ProfileTypes)
    /\ cursor[2] <= Len(disk[CurrentType])
    /\ LET profileType == CurrentType
           profileName == disk[CurrentType][cursor[2]]
       IN \E read \in ReadResults :
          \E vault \in [VaultKeys(read.properties) -> VaultAnswers] :
            LET got == ConvertOne(read, vault)
            IN /\ lastRead' = [kind |-> "profile", type |-> profileType,
                               name |-> profileName, read |-> read,
                               vault |-> vault, meta |-> NoMeta]
               /\ IF got.error = "none"
                  THEN /\ config' = [config EXCEPT !.profiles =
                                Put(@, getProfileMapKey(profileType, profileName),
                                    [type |-> profileType,
                                     properties |-> got.properties,
                                     secure |-> got.secure])]
                       /\ profilesConverted' =
                             Put(profilesConverted, profileType,
                                 ConvertedNames(profilesConverted, profileType,
                                                profileName))
                       /\ UNCHANGED <<cpc, profilesFailed>>
                  ELSE CatchProfileError(profileType, profileName, got.error)
    /\ cursor' = <<cursor[1], cursor[2] + 1>>
    /\ UNCHANGED <<disk, before, hoistedProps, authVars, buildVars>>

\* the key defaults[profileType] gets from the meta file
DefaultFor(profileType, meta) ==
    getProfileMapKey(profileType, meta.defaultProfile)

\* the try block after the loop over profileNames: the meta file
convert_meta ==
    /\ cpc = "types"
    /\ cursor[1] <= Len(ProfileTypes)
    /\ disk[CurrentType] # <<>>
    /\ cursor[2] > Len(disk[CurrentType])
    /\ \E meta \in MetaResults :
       /\ lastRead' = [kind |-> "meta", type |-> CurrentType, name |-> NoName,
                       read |-> ReadError, vault |-> <<>>, meta |-> meta]
       /\ IF meta.error # "none"
         THEN /\ profilesFailed' =
                    Append(profilesFailed,
                           [name |-> NoName, type |-> CurrentType,
                            error |-> meta.error])
              /\ UNCHANGED config
         ELSE /\ config' =
                    IF IsNullOrUndefined(meta.defaultProfile) THEN config
                    ELSE [config EXCEPT !.defaults =
                            Put(@, CurrentType, DefaultFor(CurrentType, meta))]
              /\ UNCHANGED profilesFailed
    /\ cursor' = <<cursor[1] + 1, 1>>
    /\ UNCHANGED <<cpc, profilesConverted, disk, before, hoistedProps,
                   authVars, buildVars>>

\* after the loop over the types: convertPropNames, autoStore, return
convert_finish ==
    /\ cpc = "types"
    /\ cursor[1] > Len(ProfileTypes)
    /\ cpc' = "done"
    /\ before' = config.profiles
    /\ \E order \in VisitOrders(DOMAIN config.profiles) :
         config' = [config EXCEPT
                       !.profiles = convertPropNames(@, order),
                       !.autoStore = TRUE]
    /\ UNCHANGED <<profilesConverted, profilesFailed, disk, cursor, lastRead,
                   hoistedProps, authVars, buildVars>>

NextConvert ==
    \/ convert_skipType
    \/ convert_profile
    \/ convert_meta
    \/ convert_finish

SpecConvert == InitConvert /\ [][NextConvert]_vars

(***************************************************************************)
(*          ConfigBuilder.getDefaultValue and ConfigBuilder.build          *)
(*                                                                         *)
(* A value of a built property is [t |-> typeof, v |-> contents,           *)
(* ref |-> identity], as in hoistTemplateProperties.                       *)
(***************************************************************************)

\* the longest list of tags given to getDefaultValue
MaxTagLen == 2

\* propType[0] for a list (undefined for an empty one), propType otherwise
FirstTag(type) ==
    IF type.isArray
    THEN IF type.of = <<>> THEN Undefined ELSE type.of[1]
    ELSE type.of[1]

\* getDefaultValue(propType); `fresh` is the identity of the object or array
\* a call creates
getDefaultValue_NoList(type, fresh) ==
    CASE type = TypeTag("string") -> [t |-> "string", v |-> "", ref |-> 0]
      [] type = TypeTag("number") -> [t |-> "number", v |-> "0", ref |-> 0]
      [] type = TypeTag("object") -> [t |-> "object", v |-> "{}", ref |-> fresh]
      [] type = TypeTag("array") -> [t |-> "array", v |-> "[]", ref |-> fresh]
      [] type = TypeTag("boolean") -> [t |-> "boolean", v |-> "false", ref |-> 0]
      [] OTHER -> [t |-> "null", v |-> "null", ref |-> 0]
getDefaultValue(type, fresh) ==
    LET tag == FirstTag(type)
    IN CASE tag = "string" -> [t |-> "string", v |-> "", ref |-> 0]
         [] tag = "number" -> [t |-> "number", v |-> "0", ref |-> 0]
         [] tag = "object" -> [t |-> "object", v |-> "{}", ref |-> fresh]
         [] tag = "array" -> [t |-> "array", v |-> "[]", ref |-> fresh]
         [] tag = "boolean" -> [t |-> "boolean", v |-> "false", ref |-> 0]
         [] OTHER -> [t |-> "null", v |-> "null", ref |-> 0]

\* ---- the arguments getDefaultValue can get ----
TagNames == {"string", "number", "object", "array", "boolean", "integer",
             "null"}
TagLists == UNION {[1..n -> TagNames] : n \in 0..MaxTagLen}
PropTypes == {TypeTag(tag) : tag \in TagNames \cup {Undefined}} \cup
             {TypeList(tags) : tags \in TagLists}

InitDefault ==
    /\ authIdle
    /\ cpc = "default"
    /\ config = [profiles |-> <<>>, defaults |-> <<>>, autoStore |-> FALSE]
    /\ profilesConverted = <<>>
    /\ profilesFailed = <<>>
    /\ disk = <<>>
    /\ cursor = <<0, 0>>
    /\ lastRead = <<>>
    /\ before = <<>>
    /\ hoistedProps = <<>>
    /\ impConfig = [profiles |-> <<>>, baseProfile |-> NoBaseProfile]
    /\ opts = <<>>
    /\ valueBack = <<>>
    /\ propType \in PropTypes
    /\ emptyValue = UndefinedValue

\* one call of getDefaultValue(propType)
resolveDefault ==
    /\ cpc = "default"
    /\ cpc' = "defaulted"
    /\ emptyValue' = getDefaultValue(propType, 1)
    /\ UNCHANGED <<config, profilesConverted, profilesFailed, disk, cursor,
                   lastRead, before, hoistedProps, impConfig, opts, valueBack,
                   propType, authVars>>

NextDefault == resolveDefault

SpecDefault == InitDefault /\ [][NextDefault]_vars

\* ---- build() ----

\* the declared profile types besides the base profile type, in order
BuildChildTypes == <<"zosmf", "tso">>
\* the names a base profile type can have
BaseTypeNames == {"base", "root"}
\* order of the keys of schema.properties (Object.entries order)
SchemaKeyOrder == <<"host", "password">>
SchemaEntries(properties) ==
    SelectSeq(SchemaKeyOrder, LAMBDA k : k \in DOMAIN properties)

NoOptionDefinition == [defined |-> FALSE, defaultValue |-> UndefinedValue]
OptionDefinition(value) == [defined |-> TRUE, defaultValue |-> value]
SchemaProperty(tag, secure, includeInTemplate, optionDefinition) ==
    [type |-> TypeTag(tag), secure |-> secure,
     includeInTemplate |-> includeInTemplate,
     optionDefinition |-> optionDefinition]

\* the declarations of the schema property "host": left out of the template;
\* a string without a default; a string with the default "h"; an object
HostProperties ==
    {SchemaProperty("string", FALSE, FALSE, NoOptionDefinition),
     SchemaProperty("string", FALSE, TRUE, NoOptionDefinition),
     SchemaProperty("string", FALSE, TRUE, OptionDefinition(StringValue("h"))),
     SchemaProperty("object", FALSE, TRUE, NoOptionDefinition)}
\* the declarations of the schema property "password": a secret of the
\* template; a secret left out of it; a plain string whose option definition
\* has no defaultValue
PasswordProperties ==
    {SchemaProperty("string", TRUE, TRUE, NoOptionDefinition),
     SchemaProperty("string", TRUE, FALSE, NoOptionDefinition),
     SchemaProperty("string", FALSE, TRUE, OptionDefinition(UndefinedValue))}
Schemas ==
    {[properties |-> [host |-> h]] : h \in HostProperties} \cup
    {[properties |-> [host |-> h, password |-> p]] :
        h \in HostProperties, p \in PasswordProperties}

\* impConfig: the child types and then the base type; impConfig.baseProfile
\* is absent or is the declaration of the base type.  A base type named other
\* than "base" is always the designated one.
BaseChoices == {c \in BaseTypeNames \X BOOLEAN : c[1] # "base" => c[2]}
ImpConfigs ==
    {[profiles |-> [i \in 1..(Len(BuildChildTypes) + 1) |->
                      IF i <= Len(BuildChildTypes)
                      THEN [type |-> BuildChildTypes[i], schema |-> cs[i]]
                      ELSE [type |-> b[1], schema |-> bs]],
      baseProfile |-> IF b[2] THEN [type |-> b[1], schema |-> bs]
                      ELSE NoBaseProfile] :
        cs \in [1..Len(BuildChildTypes) -> Schemas], bs \in Schemas,
        b \in BaseChoices}

\* opts: populateProperties absent, false or true; getValueBack absent or a
\* callback
OptionSets ==
    {o \in PartialMaps({"populateProperties", "getValueBack"}, BOOLEAN) :
        "getValueBack" \in DOMAIN o => o["getValueBack"]}
\* what the callback can resolve to
NullResult == [t |-> "null", v |-> "null", ref |-> 0]
ValueBackResults == {NullResult, StringValue("live")}

\* opts.populateProperties as a condition
PopulateProperties(o) ==
    "populateProperties" \in DOMAIN o /\ o["populateProperties"]
\* opts.getValueBack != null
HasGetValueBack(o) == "getValueBack" \in DOMAIN o
\* impConfig.baseProfile != null
HasBaseProfile(imp) == imp.baseProfile # NoBaseProfile

\* the identity of the object getDefaultValue creates for property k of the
\* index-th declared profile
FreshRef(index, k) ==
    (index - 1) * Len(SchemaKeyOrder)
        + (CHOOSE i \in 1..Len(SchemaKeyOrder) : SchemaKeyOrder[i] = k)

\* properties[k] for a property of the template that is not secure: the
\* defaultValue of its option definition, the empty value of its type when
\* that leaves properties[k] undefined
PropertyValue_NoFallback(v, fresh) ==
    IF v.optionDefinition.defined THEN v.optionDefinition.defaultValue
    ELSE getDefaultValue(v.type, fresh)
PropertyValue(v, fresh) ==
    LET declared == IF v.optionDefinition.defined
                    THEN v.optionDefinition.defaultValue
                    ELSE UndefinedValue
    IN IF declared = UndefinedValue THEN getDefaultValue(v.type, fresh)
       ELSE declared

\* the loop over Object.entries(profile.schema.properties): `properties`
BuiltProperties(profile, index, o) ==
    LET schema == profile.schema.properties
        keys == {k \in DOMAIN schema :
                    /\ PopulateProperties(o) /\ schema[k].includeInTemplate
                    /\ ~schema[k].secure}
    IN [k \in keys |-> PropertyValue(schema[k], FreshRef(index, k))]

\* the loop over Object.entries(profile.schema.properties): `secureProps`
BuiltSecure(profile, o) ==
    LET schema == profile.schema.properties
    IN SelectSeq(SchemaEntries(schema),
                 LAMBDA k : /\ PopulateProperties(o)
                            /\ schema[k].includeInTemplate
                            /\ schema[k].secure)

InitBuild ==
    /\ authIdle
    /\ cpc = "declaring"
    /\ config = [profiles |-> <<>>, defaults |-> <<>>, autoStore |-> FALSE]
    /\ profilesConverted = <<>>
    /\ profilesFailed = <<>>
    /\ disk = <<>>
    /\ cursor = <<1, 1>>
    /\ lastRead = <<>>
    /\ before = <<>>
    /\ hoistedProps = <<>>
    /\ impConfig \in ImpConfigs
    /\ opts \in OptionSets
    /\ valueBack = <<>>
    /\ propType = TypeTag(Undefined)
    /\ emptyValue = UndefinedValue

\* one iteration of the loop over impConfig.profiles
build_profile ==
    /\ cpc = "declaring"
    /\ cursor[1] <= Len(impConfig.profiles)
    /\ LET profile == impConfig.profiles[cursor[1]]
       IN config' =
            [config EXCEPT
                !.profiles = Put(@, profile.type,
                                 [type |-> profile.type,
                                  properties |->
                                      BuiltProperties(profile, cursor[1], opts),
                                  secure |-> BuiltSecure(profile, opts)]),
                !.defaults = IF PopulateProperties(opts)
                             THEN Put(@, profile.type, profile.type)
                             ELSE @]
    /\ cursor' = <<cursor[1] + 1, 1>>
    /\ UNCHANGED <<cpc, profilesConverted, profilesFailed, disk, lastRead,
                   before, hoistedProps, impConfig, opts, valueBack, propType,
                   emptyValue, authVars>>

\* impConfig.baseProfile != null: hoistTemplateProperties(config.profiles,
\* impConfig.baseProfile.type)
build_hoist ==
    /\ cpc = "declaring"
    /\ cursor[1] > Len(impConfig.profiles)
    /\ HasBaseProfile(impConfig)
    /\ cpc' = "valueBack"
    /\ before' = config.profiles
    /\ hoistedProps' =
          Append(hoistedProps,
                 DuplicateProps(config.profiles, impConfig.baseProfile.type))
    /\ config' = [config EXCEPT
                    !.profiles = HoistedProfiles(@, impConfig.baseProfile.type)]
    /\ UNCHANGED <<profilesConverted, profilesFailed, disk, cursor, lastRead,
                   impConfig, opts, valueBack, propType, emptyValue, authVars>>

\* the profile key written in the path `profiles.base.properties.${k}`
valueBackProfile == "base"

\* lodash.set(config, `profiles.base.properties.${k}`, propValue): the objects
\* missing on the path are created
SetValueBack(profiles, k, propValue) ==
    IF valueBackProfile \in DOMAIN profiles
    THEN [profiles EXCEPT ![valueBackProfile].properties = Put(@, k, propValue)]
    ELSE Put(profiles, valueBackProfile,
             [properties |-> Put(<<>>, k, propValue)])

\* hoistedProps.includes(k) || (v.includeInTemplate && v.secure)
AsksValueBack(k, v, hoisted) ==
    k \in hoisted \/ (v.includeInTemplate /\ v.secure)

\* Object.entries(impConfig.baseProfile.schema.properties), as keys
BaseEntries == SchemaEntries(impConfig.baseProfile.schema.properties)

\* the index, from i on, of the next entry the callback is called for;
\* beyond the entries when there is none
RECURSIVE NextValueBack(_)
NextValueBack(i) ==
    IF i > Len(BaseEntries) THEN i
    ELSE IF AsksValueBack(BaseEntries[i],
                          impConfig.baseProfile.schema.properties[BaseEntries[i]],
                          hoistedProps[Len(hoistedProps)])
    THEN i
    ELSE NextValueBack(i + 1)

\* opts.getValueBack(k, v) is called and awaited
build_callValueBack ==
    /\ cpc = "valueBack"
    /\ HasGetValueBack(opts)
    /\ NextValueBack(cursor[2]) <= Len(BaseEntries)
    /\ cpc' = "awaiting"
    /\ cursor' = <<cursor[1], NextValueBack(cursor[2])>>
    /\ valueBack' = Append(valueBack,
                           [name |-> BaseEntries[NextValueBack(cursor[2])],
                            resolved |-> FALSE, result |-> UndefinedValue])
    /\ UNCHANGED <<config, profilesConverted, profilesFailed, disk, lastRead,
                   before, hoistedProps, impConfig, opts, propType, emptyValue,
                   authVars>>

\* the callback resolves: a value that is not null is written
build_resumeValueBack ==
    /\ cpc = "awaiting"
    /\ cpc' = "valueBack"
    /\ \E propValue \in ValueBackResults :
          /\ valueBack' = [valueBack EXCEPT
                              ![Len(valueBack)].resolved = TRUE,
                              ![Len(valueBack)].result = propValue]
          /\ config' =
                IF propValue \in {NullResult, UndefinedValue} THEN config
                ELSE [config EXCEPT
                        !.profiles = SetValueBack(@, BaseEntries[cursor[2]],
                                                  propValue)]
    /\ cursor' = <<cursor[1], cursor[2] + 1>>
    /\ UNCHANGED <<profilesConverted, profilesFailed, disk, lastRead, before,
                   hoistedProps, impConfig, opts, propType, emptyValue,
                   authVars>>

\* return { ...config, autoStore: true }
build_return ==
    /\ \/ /\ cpc = "declaring"
          /\ cursor[1] > Len(impConfig.profiles)
          /\ ~HasBaseProfile(impConfig)
       \/ /\ cpc = "valueBack"
          /\ \/ ~HasGetValueBack(opts)
             \/ NextValueBack(cursor[2]) > Len(BaseEntries)
    /\ cpc' = "returned"
    /\ config' = [config EXCEPT !.autoStore = TRUE]
    /\ UNCHANGED <<profilesConverted, profilesFailed, disk, cursor, lastRead,
                   before, hoistedProps, impConfig, opts, valueBack, propType,
                   emptyValue, authVars>>

NextBuild ==
    \/ build_profile
    \/ build_hoist
    \/ build_callValueBack
    \/ build_resumeValueBack
    \/ build_return

SpecBuild == InitBuild /\ [][NextBuild]_vars

(***************************************************************************)
(*                  Properties of BaseAuthHandler (SpecAuth)               *)
(***************************************************************************)

TokenDisplayed == \E i \in 1..Len(console) : console[i].msg = "Received a token"
SuccessReported(m) == \E i \in 1..Len(console) : console[i] = m
ValidationErrors == {"Token type not supplied", "Token value not supplied",
                     "Host not supplied", "Port not supplied"}
PropagatedErrors == {"createSessCfgFromArgs failed", "doLogin failed",
                     "doLogout failed"}
ProfileHasName == storedMeta.name \notin {Null, Undefined}

C2_LogoutClearsMatchingToken ==
    (pc = "done" /\ positional = LOGOUT_ACTION) =>
        /\ calls.doLogout = 1
        /\ IF ProfileHasName
              /\ arguments.tokenValue = storedMeta.profile.tokenValue
           THEN /\ Len(saveCalls) = 1
                /\ saveCalls[1].name = storedMeta.name
                /\ saveCalls[1].type = storedMeta.type
                /\ saveCalls[1].overwrite
                /\ saveCalls[1].profile.tokenType = Undefined
                /\ saveCalls[1].profile.tokenValue = Undefined
                /\ saveCalls[1].profile.host = storedMeta.profile.host
           ELSE saveCalls = <<>>
        /\ mSession.type = AUTH_TYPE_BASIC
        /\ mSession.tokenType = Undefined
        /\ mSession.tokenValue = Undefined
        /\ console = <<LogoutSuccessful>>

C2_SavedReached ==
    /\ pc = "done" /\ positional = LOGOUT_ACTION /\ Len(saveCalls) = 1

\* C3: a logout that fails validation (token type, token value, host or port
\* absent) has had no side effect: doLogout was not called, the profile store
\* got no save call, and mSession is what it was when process() was entered.
C3_ValidationNoSideEffects ==
    (pc = "failed" /\ positional = LOGOUT_ACTION /\ error \in ValidationErrors) =>
        /\ calls.doLogout = 0
        /\ saveCalls = <<>>
        /\ mSession = mSessionBefore

\* the part of C3 the code does satisfy
C3_ValidationNoCalls ==
    (pc = "failed" /\ positional = LOGOUT_ACTION /\ error \in ValidationErrors) =>
        /\ calls.doLogout = 0
        /\ saveCalls = <<>>
        /\ console = <<>>

C3_ValidationFailedReached ==
    /\ pc = "failed" /\ positional = LOGOUT_ACTION /\ error \in ValidationErrors

\* C4: when createSessCfgFromArgs, doLogin or doLogout throws, process() fails
\* with that error; doLogin and doLogout were called at most once; the profile
\* store got no update or save call; no message was written; the session is
\* not rolled back: after a failed doLogout it is in token mode with the token
\* type and value of the arguments, after a failed doLogin it is the session
\* built for the login.
C4_FailurePropagates ==
    /\ calls.doLogin <= 1 /\ calls.doLogout <= 1
    /\ (pc = "failed" /\ error \in PropagatedErrors) =>
        /\ updateCalls = <<>>
        /\ saveCalls = <<>>
        /\ console = <<>>
        /\ error = "createSessCfgFromArgs failed" =>
              /\ calls.doLogin = 0 /\ calls.doLogout = 0
              /\ mSession = mSessionBefore
        /\ error = "doLogin failed" =>
              /\ calls.doLogin = 1
              /\ mSession.built /\ mSession.type = AUTH_TYPE_TOKEN
        /\ error = "doLogout failed" =>
              /\ calls.doLogout = 1
              /\ mSession.type = AUTH_TYPE_TOKEN
              /\ mSession.tokenType = arguments.tokenType
              /\ mSession.tokenValue = arguments.tokenValue
    /\ error # NoError <=> pc = "failed"

C4_LogoutFailedReached ==
    /\ pc = "failed" /\ error = "doLogout failed"
    /\ mSessionBefore.type = AUTH_TYPE_BASIC

\* C5: process() runs the login transition exactly when positionals[1] is the
\* login action and the logout transition exactly when it is the logout
\* action; for any other value it fails at once, having looked up no profile,
\* built no session, called no collaborator and written nothing.
C5_Dispatch ==
    /\ pc \in {"login", "doLogin", "loginStore"} => positional = LOGIN_ACTION
    /\ pc \in {"logout", "doLogout", "logoutStore"} => positional = LOGOUT_ACTION
    /\ calls.doLogin > 0 => positional = LOGIN_ACTION
    /\ calls.doLogout > 0 => positional = LOGOUT_ACTION
    /\ (pc \in {"done", "failed"} /\ positional \in {LOGIN_ACTION, LOGOUT_ACTION})
          => calls.getMeta = 1
    /\ (pc \in {"done", "failed"}
        /\ positional \notin {LOGIN_ACTION, LOGOUT_ACTION}) =>
          /\ pc = "failed"
          /\ error = "group name is not valid"
          /\ calls = NoCalls
          /\ updateCalls = <<>>
          /\ saveCalls = <<>>
          /\ console = <<>>
          /\ mSession = mSessionBefore

C5_InvalidGroupReached ==
    /\ pc = "failed" /\ positional \notin {LOGIN_ACTION, LOGOUT_ACTION}
    /\ mSessionBefore.built

(***************************************************************************)
(*           Properties of hoistTemplateProperties (SpecHoist)             *)
(***************************************************************************)

\* the non-base profiles of `profiles` that have property k
Holders(profiles, k) ==
    {c \in DOMAIN profiles : profiles[c].type # baseProfileType
                             /\ k \in DOMAIN profiles[c].properties}

\* k is left as it was in every profile
UnchangedFor(k) ==
    \A c \in DOMAIN before :
        /\ k \in DOMAIN config.profiles[c].properties
              <=> k \in DOMAIN before[c].properties
        /\ k \in DOMAIN before[c].properties =>
              config.profiles[c].properties[k] = before[c].properties[k]

\* C6: after hoisting, a property that occurred in at least two non-base
\* profiles with equal values (equal contents: two {} count as equal) is in
\* the base profile with the shared value and in no non-base profile, also
\* when the base profile already had a property of that name; any other
\* property is unchanged in every profile.
C6_HoistsEqualValues ==
    cpc = "hoisted" =>
        \A k \in HoistPropNames :
            LET holders == Holders(before, k)
                shared ==
                    /\ Cardinality(holders) >= 2
                    /\ \A c, d \in holders :
                          /\ before[c].properties[k].t = before[d].properties[k].t
                          /\ before[c].properties[k].v = before[d].properties[k].v
            IN IF shared
               THEN /\ k \in DOMAIN config.profiles[baseProfileType].properties
                    /\ \A c \in holders :
                          /\ config.profiles[baseProfileType].properties[k].t
                                = before[c].properties[k].t
                          /\ config.profiles[baseProfileType].properties[k].v
                                = before[c].properties[k].v
                    /\ Holders(config.profiles, k) = {}
               ELSE UnchangedFor(k)

\* what the code does for C6's case: identity decides for objects, and a
\* property the base profile already has keeps its value
C6_HoistsIdenticalValues ==
    cpc = "hoisted" =>
        \A k \in HoistPropNames :
            LET holders == Holders(before, k)
                identical ==
                    /\ Cardinality(holders) >= 2
                    /\ \A c, d \in holders :
                          SameValueZero(before[c].properties[k],
                                        before[d].properties[k])
            IN IF identical
               THEN /\ k \in DOMAIN config.profiles[baseProfileType].properties
                    /\ \A c \in holders :
                          config.profiles[baseProfileType].properties[k] =
                              IF k \in DOMAIN before[baseProfileType].properties
                              THEN before[baseProfileType].properties[k]
                              ELSE before[c].properties[k]
                    /\ Holders(config.profiles, k) = {}
                    /\ k \in hoistedProps[1]
               ELSE UnchangedFor(k) /\ k \notin hoistedProps[1]

\* two non-base profiles held {} under the same name, as two objects
C6_EqualObjectsReached ==
    /\ cpc = "hoisted"
    /\ \E k \in HoistPropNames :
          /\ Cardinality(Holders(before, k)) >= 2
          /\ \A c \in Holders(before, k) : before[c].properties[k].t = "object"
          /\ \E c, d \in Holders(before, k) :
                before[c].properties[k].ref # before[d].properties[k].ref

\* C7: a second run of hoistTemplateProperties on the result of the first
\* returns no name and changes no profile.
C7_HoistIdempotent ==
    cpc = "hoistedTwice" =>
        /\ hoistedProps[2] = {}
        /\ config.profiles = before

\* the second run came after a first run that did hoist
C7_SecondRunReached ==
    /\ cpc = "hoistedTwice"
    /\ hoistedProps[1] # {}

(***************************************************************************)
(*               Properties of convertPropNames (SpecRename)               *)
(***************************************************************************)

OldNames == {"hostname", "username", "pass"}
NewNameOf(old) ==
    CASE old = "hostname" -> "host"
      [] old = "username" -> "user"
      [] old = "pass" -> "password"
      [] OTHER -> old

\* no old name is left as a key or as a secure entry, each property that had
\* an old name is under the new name with its value, the secure entries are
\* renamed in place
RenamedIn(c) ==
    LET was == before[c]
        now == config.profiles[c]
    IN /\ DOMAIN now.properties \cap OldNames = {}
       /\ \A i \in 1..Len(now.secure) : now.secure[i] \notin OldNames
       /\ \A old \in DOMAIN was.properties \cap OldNames :
             /\ NewNameOf(old) \in DOMAIN now.properties
             /\ now.properties[NewNameOf(old)] = was.properties[old]
       /\ Len(now.secure) = Len(was.secure)
       /\ \A i \in 1..Len(was.secure) : now.secure[i] = NewNameOf(was.secure[i])
       /\ now.type = was.type
       /\ DOMAIN now.properties =
             {NewNameOf(k) : k \in DOMAIN was.properties}

\* C8 as stated: after one pass no old name is left, every renamed property
\* has its original value under the new name, and every other property of the
\* profile is unchanged; a second pass changes nothing.
C8_RenameKeepsOthers ==
    /\ cpc = "renamed" =>
          \A c \in DOMAIN before :
              /\ RenamedIn(c)
              /\ \A k \in DOMAIN before[c].properties \ OldNames :
                    /\ k \in DOMAIN config.profiles[c].properties
                    /\ config.profiles[c].properties[k] = before[c].properties[k]
    /\ cpc = "renamedTwice" => config.profiles = before

\* C8 as the code has it: a property that already has the new name keeps its
\* value only when the profile has no property under the old name; otherwise
\* the renamed property replaces it.
C8_RenameOverwrites ==
    /\ cpc = "renamed" =>
          \A c \in DOMAIN before :
              /\ RenamedIn(c)
              /\ \A k \in DOMAIN before[c].properties \ OldNames :
                    (\A old \in DOMAIN before[c].properties \cap OldNames :
                          NewNameOf(old) # k)
                    => /\ k \in DOMAIN config.profiles[c].properties
                       /\ config.profiles[c].properties[k]
                             = before[c].properties[k]
    /\ cpc = "renamedTwice" => config.profiles = before

\* a pass renamed a property and a secure entry, in a profile that has an
\* untouched property too
C8_RenamedReached ==
    /\ cpc = "renamed"
    /\ \E c \in DOMAIN before :
          /\ "pass" \in DOMAIN before[c].properties
          /\ "host" \in DOMAIN before[c].properties
          /\ \E i \in 1..Len(before[c].secure) : before[c].secure[i] = "pass"

(***************************************************************************)
(*                    Properties of convert (SpecConvert)                  *)
(***************************************************************************)

\* the raw value starts with the securely-stored prefix
HasSecurePrefix(value) ==
    value.t = "string" /\ Len(value.v) >= 1 /\ value.v[1] = "managed by"

\* the last profile iteration met a failure: the file could not be read, a
\* value could not be turned into a string, the vault rejected a load, or the
\* stored secret is no JSON
LastProfileFails ==
    \/ lastRead.read.error # "none"
    \/ \E k \in DOMAIN lastRead.read.properties :
          \/ lastRead.read.properties[k].t = "null"
          \/ /\ HasSecurePrefix(lastRead.read.properties[k])
             /\ \/ lastRead.vault[k].kind = "rejected"
                \/ lastRead.vault[k].kind = "text"
                   /\ lastRead.vault[k].text # "\"s3cret\""

FailureEntries(type, name) ==
    {i \in 1..Len(profilesFailed) :
        profilesFailed[i].type = type /\ profilesFailed[i].name = name}
IsConverted(type, name) ==
    /\ type \in DOMAIN profilesConverted
    /\ \E i \in 1..Len(profilesConverted[type]) :
          profilesConverted[type][i] = name
MapKey(type, name) == type \o "_" \o name

\* the (type, name) pairs whose iteration is over
Visited ==
    {tn \in TypeSet \X {ProfileNames[i] : i \in 1..Len(ProfileNames)} :
        \E t \in 1..Len(ProfileTypes) :
            /\ ProfileTypes[t] = tn[1]
            /\ \E n \in 1..Len(disk[tn[1]]) :
                  /\ disk[tn[1]][n] = tn[2]
                  /\ \/ t < cursor[1]
                     \/ t = cursor[1] /\ n < cursor[2]}

\* C9: a profile whose read, parse or vault load fails gets exactly one
\* failure entry {name, type, error} and is in neither profilesConverted nor
\* config.profiles; any other profile, of the same or a later type, is
\* converted and listed; the run goes on to the type's meta file and to the
\* end; a meta file that is read and names a defaultProfile sets
\* defaults[type]; a meta file that cannot be read gets one failure entry
\* without a name.
C9_FailuresAreIsolated ==
    /\ lastRead.kind = "profile" =>
          IF LastProfileFails
          THEN /\ Cardinality(FailureEntries(lastRead.type, lastRead.name)) = 1
               /\ ~IsConverted(lastRead.type, lastRead.name)
               /\ MapKey(lastRead.type, lastRead.name) \notin DOMAIN config.profiles
               /\ profilesFailed[Len(profilesFailed)].error # "none"
          ELSE /\ FailureEntries(lastRead.type, lastRead.name) = {}
               /\ IsConverted(lastRead.type, lastRead.name)
               /\ MapKey(lastRead.type, lastRead.name) \in DOMAIN config.profiles
    /\ \A tn \in Visited :
          IF FailureEntries(tn[1], tn[2]) # {}
          THEN /\ Cardinality(FailureEntries(tn[1], tn[2])) = 1
               /\ ~IsConverted(tn[1], tn[2])
               /\ MapKey(tn[1], tn[2]) \notin DOMAIN config.profiles
          ELSE /\ IsConverted(tn[1], tn[2])
               /\ MapKey(tn[1], tn[2]) \in DOMAIN config.profiles
    /\ lastRead.kind = "meta" =>
          /\ (lastRead.meta.error = "none"
              /\ lastRead.meta.defaultProfile \notin {Null, Undefined}) =>
                /\ lastRead.type \in DOMAIN config.defaults
                /\ config.defaults[lastRead.type]
                      = MapKey(lastRead.type, lastRead.meta.defaultProfile)
          /\ lastRead.meta.error # "none" =>
                /\ Cardinality(FailureEntries(lastRead.type, NoName)) = 1
                /\ profilesFailed[Len(profilesFailed)] =
                      [name |-> NoName, type |-> lastRead.type,
                       error |-> lastRead.meta.error]
          /\ lastRead.meta.error = "none" =>
                FailureEntries(lastRead.type, NoName) = {}
    /\ cpc = "done" \/ ENABLED NextConvert
    /\ (cpc = "types" /\ cursor[1] <= Len(ProfileTypes)
        /\ disk[ProfileTypes[cursor[1]]] # <<>>
        /\ cursor[2] > Len(disk[ProfileTypes[cursor[1]]])) => ENABLED convert_meta
    /\ cpc = "done" =>
          Visited = {tn \in TypeSet \X {ProfileNames[i] : i \in 1..Len(ProfileNames)} :
                        \E n \in 1..Len(disk[tn[1]]) : disk[tn[1]][n] = tn[2]}

\* in a type with profiles a and b, b failed, a is converted, and the meta
\* file that names b as the default was read
C9_FailedThenMetaReached ==
    /\ cpc = "done"
    /\ \E t \in TypeSet :
          /\ disk[t] = <<"a", "b">>
          /\ IsConverted(t, "a")
          /\ Cardinality(FailureEntries(t, "b")) = 1
          /\ t \in DOMAIN config.defaults

C11_PropertiesSecureDisjoint ==
    cpc = "done" =>
        \A c \in DOMAIN config.profiles :
            \A i \in 1..Len(config.profiles[c].secure) :
                config.profiles[c].secure[i]
                    \notin DOMAIN config.profiles[c].properties

\* what convert() does for C11's case: every secure entry is the name of a
\* property that holds the secret
C11_SecureNamesAreProperties ==
    cpc = "done" =>
        \A c \in DOMAIN config.profiles :
            \A i \in 1..Len(config.profiles[c].secure) :
                config.profiles[c].secure[i]
                    \in DOMAIN config.profiles[c].properties

\* convert() returned a profile with a secret loaded from the vault
C11_SecretConvertedReached ==
    /\ cpc = "done"
    /\ \E c \in DOMAIN config.profiles : config.profiles[c].secure # <<>>

\* C12: in the document convert() returns and in the one build() returns,
\* every value of defaults is a key of profiles, also when the meta file names
\* a default profile whose conversion failed or whose file does not exist.
C12_DefaultsReferenceProfiles ==
    cpc \in {"done", "returned"} =>
        \A t \in DOMAIN config.defaults :
            config.defaults[t] \in DOMAIN config.profiles

\* what convert() does for C12's case: the default of a type is a key of
\* profiles exactly when the profile the meta file names was converted
C12_DefaultsOfConvertedProfiles ==
    cpc = "done" =>
        \A t \in DOMAIN config.defaults :
            config.defaults[t] \in DOMAIN config.profiles
                <=> \E i \in 1..Len(ProfileNames) :
                        /\ IsConverted(t, ProfileNames[i])
                        /\ config.defaults[t] = MapKey(t, ProfileNames[i])

\* convert() returned with the default of a type set from a meta file that
\* names a profile whose conversion failed
C12_DefaultOfFailedReached ==
    /\ cpc = "done"
    /\ \E t \in DOMAIN config.defaults :
          \E i \in 1..Len(profilesFailed) :
              /\ profilesFailed[i].type = t
              /\ profilesFailed[i].name # NoName
              /\ config.defaults[t] = MapKey(t, profilesFailed[i].name)

(***************************************************************************)
(*               Properties of getDefaultValue (SpecDefault)               *)
(***************************************************************************)

\* the tag the result depends on: the tag itself, the first element of a list
\* of tags, none for an absent tag or an empty list
CanonicalTag ==
    IF propType.isArray /\ propType.of = <<>> THEN Undefined
    ELSE Head(propType.of)

\* C15: getDefaultValue gives "" for string, 0 for number, {} for object, []
\* for array, false for boolean and null for any other or absent tag; for a
\* list of tags it gives the result for the first element alone.
C15_DefaultValueTable ==
    cpc = "defaulted" =>
        /\ CanonicalTag = "string" <=>
              (emptyValue.t = "string" /\ emptyValue.v = "")
        /\ CanonicalTag = "number" <=>
              (emptyValue.t = "number" /\ emptyValue.v = "0")
        /\ CanonicalTag = "object" <=>
              (emptyValue.t = "object" /\ emptyValue.v = "{}")
        /\ CanonicalTag = "array" <=>
              (emptyValue.t = "array" /\ emptyValue.v = "[]")
        /\ CanonicalTag = "boolean" <=>
              (emptyValue.t = "boolean" /\ emptyValue.v = "false")
        /\ CanonicalTag
             \notin {"string", "number", "object", "array", "boolean"} <=>
              (emptyValue.t = "null" /\ emptyValue.v = "null")

\* getDefaultValue(["array", "string"]) has returned
C15_ListOfTagsReached ==
    /\ cpc = "defaulted"
    /\ propType = TypeList(<<"array", "string">>)
    /\ emptyValue.t = "array"

(***************************************************************************)
(*                     Properties of build (SpecBuild)                     *)
(***************************************************************************)

\* build() has hoisted and was given a getValueBack callback
ValueBackStage ==
    /\ cpc \in {"valueBack", "awaiting", "returned"}
    /\ impConfig.baseProfile # NoBaseProfile
    /\ "getValueBack" \in DOMAIN opts

\* the properties of the base profile's schema the callback is to be called
\* for, in schema order: those hoisted and those of the template that are
\* secure
ExpectedValueBackNames ==
    LET schema == impConfig.baseProfile.schema.properties
    IN SelectSeq(SchemaEntries(schema),
                 LAMBDA k : \/ k \in hoistedProps[1]
                            \/ schema[k].includeInTemplate /\ schema[k].secure)

\* the profiles as the hoisting left them
AfterHoisting == HoistedProfiles(before, impConfig.baseProfile.type)

\* the names for which the callback has resolved to a value
LiveNames ==
    {valueBack[i].name : i \in {j \in 1..Len(valueBack) :
                                   /\ valueBack[j].resolved
                                   /\ valueBack[j].result.t # "null"}}

\* the callback was called once per expected property, in schema order, and
\* a call is only made when the one before has resolved
ValueBackCalledInOrder ==
    /\ Len(valueBack) <= Len(ExpectedValueBackNames)
    /\ \A i \in 1..Len(valueBack) :
          /\ valueBack[i].name = ExpectedValueBackNames[i]
          /\ i < Len(valueBack) => valueBack[i].resolved
    /\ cpc # "awaiting" =>
          \A i \in 1..Len(valueBack) : valueBack[i].resolved
    /\ cpc = "returned" => Len(valueBack) = Len(ExpectedValueBackNames)

\* every value the callback resolved to is a property of profile `target`;
\* nothing else of `target` has changed since the hoisting
ValueBackWrittenTo(target) ==
    /\ target \in DOMAIN config.profiles
    /\ \A i \in 1..Len(valueBack) :
          (valueBack[i].resolved /\ valueBack[i].result.t # "null") =>
              /\ valueBack[i].name \in DOMAIN config.profiles[target].properties
              /\ config.profiles[target].properties[valueBack[i].name]
                    = valueBack[i].result
    /\ target \in DOMAIN AfterHoisting =>
          /\ DOMAIN config.profiles[target].properties
                = DOMAIN AfterHoisting[target].properties \cup LiveNames
          /\ \A k \in DOMAIN AfterHoisting[target].properties \ LiveNames :
                config.profiles[target].properties[k]
                    = AfterHoisting[target].properties[k]
          /\ config.profiles[target].type = AfterHoisting[target].type
          /\ config.profiles[target].secure = AfterHoisting[target].secure

\* C13: with a base profile type designated and getValueBack supplied, the
\* callback is called once, in schema order and one at a time, for exactly the
\* properties of the base profile's schema that were hoisted or are secure
\* properties of the template; each result that is not null is written into the
\* properties of the profile whose key is the designated base profile type,
\* a null result changes nothing, and no other profile is created or modified.
C13_ValueBackIntoBaseProfile ==
    ValueBackStage =>
        /\ ValueBackCalledInOrder
        /\ ValueBackWrittenTo(impConfig.baseProfile.type)
        /\ DOMAIN config.profiles = DOMAIN AfterHoisting
        /\ \A c \in DOMAIN AfterHoisting \ {impConfig.baseProfile.type} :
              config.profiles[c] = AfterHoisting[c]

\* what build() does for C13's case: the results are written into the profile
\* with the key "base", which is created when no declared type has that name
C13_ValueBackIntoKeyBase ==
    ValueBackStage =>
        /\ ValueBackCalledInOrder
        /\ LiveNames # {} => ValueBackWrittenTo("base")
        /\ DOMAIN config.profiles =
              DOMAIN AfterHoisting
                  \cup (IF LiveNames # {} THEN {"base"} ELSE {})
        /\ \A c \in DOMAIN AfterHoisting \ {"base"} :
              config.profiles[c] = AfterHoisting[c]
        /\ LiveNames = {} => config.profiles = AfterHoisting
        /\ ("base" \notin DOMAIN AfterHoisting /\ LiveNames # {}) =>
              /\ DOMAIN config.profiles["base"] = {"properties"}
              /\ DOMAIN config.profiles["base"].properties = LiveNames

\* build() returned after the callback resolved to a value for a property of
\* a base profile type that is not named "base"
C13_OtherBaseNameReached ==
    /\ cpc = "returned"
    /\ ValueBackStage
    /\ impConfig.baseProfile.type # "base"
    /\ LiveNames # {}
    /\ \E i \in 1..Len(valueBack) : valueBack[i].result.t = "null"

\* the secure properties of the template of a declared profile, in schema order
TemplateSecrets(profile) ==
    SelectSeq(SchemaEntries(profile.schema.properties),
              LAMBDA k : /\ profile.schema.properties[k].includeInTemplate
                         /\ profile.schema.properties[k].secure)

\* the declared profiles whose iteration is over
Declared ==
    {impConfig.profiles[i] :
        i \in {j \in 1..Len(impConfig.profiles) : j < cursor[1]}}

\* C14: for every declared profile type and every setting of the options, the
\* secure list of the built profile is exactly the names of the schema
\* properties that are in the template and secure, in schema order, and when
\* no getValueBack is supplied none of them is a key of the profile's
\* properties.
C14_SecureListOfTemplate ==
    \A profile \in Declared :
        /\ config.profiles[profile.type].secure = TemplateSecrets(profile)
        /\ "getValueBack" \notin DOMAIN opts =>
              \A i \in 1..Len(TemplateSecrets(profile)) :
                  TemplateSecrets(profile)[i]
                      \notin DOMAIN config.profiles[profile.type].properties

\* what build() does for C14's case: the secure list is only filled when
\* populateProperties is true, and its names are no keys of the properties
\* the loop over the schema gives the profile
C14_SecureListWhenPopulating ==
    \A profile \in Declared :
        /\ config.profiles[profile.type].secure =
              IF "populateProperties" \in DOMAIN opts
                 /\ opts["populateProperties"]
              THEN TemplateSecrets(profile)
              ELSE <<>>
        /\ cpc = "declaring" =>
              \A i \in 1..Len(TemplateSecrets(profile)) :
                  TemplateSecrets(profile)[i]
                      \notin DOMAIN config.profiles[profile.type].properties

\* C14's second half alone, with populateProperties true
C14_SecretsNotInProperties ==
    ("getValueBack" \notin DOMAIN opts /\ "populateProperties" \in DOMAIN opts
     /\ opts["populateProperties"]) =>
        \A profile \in Declared :
            \A i \in 1..Len(TemplateSecrets(profile)) :
                TemplateSecrets(profile)[i]
                    \notin DOMAIN config.profiles[profile.type].properties

\* build() returned, without populateProperties, a profile whose schema has a
\* secure property of the template
C14_SecretNotPopulatedReached ==
    /\ cpc = "returned"
    /\ "populateProperties" \notin DOMAIN opts
    /\ \E profile \in Declared : TemplateSecrets(profile) # <<>>

\* opts.populateProperties is true
Populating ==
    "populateProperties" \in DOMAIN opts /\ opts["populateProperties"]

\* the properties of the template of a declared profile that are not secure
TemplatePlain(profile) ==
    {k \in DOMAIN profile.schema.properties :
        /\ profile.schema.properties[k].includeInTemplate
        /\ ~profile.schema.properties[k].secure}

\* value is what property v of a schema is populated with: its declared
\* default, or without one the empty value of its type
IsPopulatedValue(value, v) ==
    IF v.optionDefinition.defined
       /\ v.optionDefinition.defaultValue.t # "undefined"
    THEN value = v.optionDefinition.defaultValue
    ELSE /\ value.t = getDefaultValue(v.type, 0).t
         /\ value.v = getDefaultValue(v.type, 0).v

\* with populateProperties true, a declared type is its own default, and
\* when the loop over the declared types ends its profile has the plain
\* properties of the template with their values
PopulatedAsDeclared ==
    Populating =>
        \A profile \in Declared :
            /\ profile.type \in DOMAIN config.defaults
            /\ config.defaults[profile.type] = profile.type
            /\ cpc = "declaring" =>
                  /\ DOMAIN config.profiles[profile.type].properties
                        = TemplatePlain(profile)
                  /\ \A k \in TemplatePlain(profile) :
                        IsPopulatedValue(
                            config.profiles[profile.type].properties[k],
                            profile.schema.properties[k])

\* C16 as stated: with populateProperties true every declared type T has
\* defaults[T] = T and, before hoisting, the plain properties of the template
\* with their declared default or else the empty value of their type; with
\* populateProperties false or absent every profile has empty properties and
\* defaults is empty; the returned document has autoStore = true.
C16_PopulationAsStated ==
    /\ PopulatedAsDeclared
    /\ ~Populating =>
          /\ DOMAIN config.defaults = {}
          /\ \A c \in DOMAIN config.profiles :
                DOMAIN config.profiles[c].properties = {}
    /\ cpc = "returned" => config.autoStore

\* C16 as the code has it: with populateProperties false or absent the
\* profiles have empty properties until getValueBack resolves to a value,
\* which is then a property of the profile "base"; the rest as stated.
C16_PopulationThenValueBack ==
    /\ PopulatedAsDeclared
    /\ ~Populating =>
          /\ DOMAIN config.defaults = {}
          /\ \A c \in DOMAIN config.profiles :
                /\ DOMAIN config.profiles[c].properties \subseteq
                      {valueBack[i].name : i \in 1..Len(valueBack)}
                /\ c # "base" => DOMAIN config.profiles[c].properties = {}
          /\ "getValueBack" \notin DOMAIN opts =>
                \A c \in DOMAIN config.profiles :
                    DOMAIN config.profiles[c].properties = {}
          /\ cpc = "declaring" =>
                \A c \in DOMAIN config.profiles :
                    DOMAIN config.profiles[c].properties = {}
    /\ cpc = "returned" => config.autoStore
    /\ cpc # "returned" => ~config.autoStore

\* the loop over the declared types has ended with populateProperties true,
\* for a schema with a declared default and a schema whose option definition
\* has none
C16_PopulatedReached ==
    /\ cpc = "declaring"
    /\ cursor[1] > Len(impConfig.profiles)
    /\ Populating
    /\ \E p, q \in Declared :
          /\ "host" \in TemplatePlain(p)
          /\ p.schema.properties["host"].optionDefinition.defined
          /\ "password" \in TemplatePlain(q)
          /\ q.schema.properties["password"].optionDefinition.defined

(***************************************************************************)
(*              Properties of convert (SpecConvert), continued             *)
(***************************************************************************)

\* the (type, name) pairs convert() enumerates
Enumerated ==
    {tn \in TypeSet \X {ProfileNames[i] : i \in 1..Len(ProfileNames)} :
        \E n \in 1..Len(disk[tn[1]]) : disk[tn[1]][n] = tn[2]}

\* how often name is listed in profilesConverted[type]
TimesConverted(type, name) ==
    IF type \notin DOMAIN profilesConverted THEN 0
    ELSE Cardinality({i \in 1..Len(profilesConverted[type]) :
                         profilesConverted[type][i] = name})

\* C17: every enumerated (type, name) pair ends up either once in
\* profilesConverted[type] or in one named entry of profilesFailed, never in
\* both and never in neither; the keys of config.profiles are the map keys of
\* the converted pairs; a type without named profiles contributes no profile,
\* no default, no failure entry, and its meta file is not read.
C17_ConversionAccounting ==
    /\ cpc = "done" =>
          /\ \A tn \in Enumerated :
                \/ /\ TimesConverted(tn[1], tn[2]) = 1
                   /\ FailureEntries(tn[1], tn[2]) = {}
                \/ /\ TimesConverted(tn[1], tn[2]) = 0
                   /\ Cardinality(FailureEntries(tn[1], tn[2])) = 1
          /\ DOMAIN config.profiles =
                {MapKey(tn[1], tn[2]) :
                    tn \in {e \in Enumerated : TimesConverted(e[1], e[2]) = 1}}
          /\ \A t \in DOMAIN profilesConverted :
                \A i \in 1..Len(profilesConverted[t]) :
                    <<t, profilesConverted[t][i]>> \in Enumerated
          /\ \A i \in 1..Len(profilesFailed) :
                profilesFailed[i].name # NoName =>
                    <<profilesFailed[i].type, profilesFailed[i].name>>
                        \in Enumerated
    /\ \A t \in TypeSet :
          disk[t] = <<>> =>
              /\ \A c \in DOMAIN config.profiles : config.profiles[c].type # t
              /\ t \notin DOMAIN config.defaults
              /\ t \notin DOMAIN profilesConverted
              /\ \A i \in 1..Len(profilesFailed) : profilesFailed[i].type # t
              /\ lastRead.kind = "meta" => lastRead.type # t

\* convert() returned for a directory with a type that has two converted
\* profiles and a type that has none
C17_TwoConvertedReached ==
    /\ cpc = "done"
    /\ \E t, u \in TypeSet :
          /\ TimesConverted(t, "a") = 1
          /\ TimesConverted(t, "b") = 1
          /\ disk[u] = <<>>

====
